---- MODULE Spec2Model ----
(***************************************************************************)
(* A model of milli's document-to-postings extraction                      *)
(* (update/index_documents/extract/extract_docid_word_positions.rs) and of *)
(* the sort-expression parser (asc_desc.rs).                               *)
(*                                                                         *)
(* Strings are sequences of one-character strings, byte strings are        *)
(* sequences of integers in 0..255, u32 arithmetic is taken modulo 2^32.   *)
(***************************************************************************)
EXTENDS Integers, Sequences, FiniteSets, TLC

VARIABLES
    searchable_fields,   \* &Option<HashSet<FieldId>>
    stop_words,          \* Option<&fst::Set>
    analyzer,            \* the stop-word configuration the Analyzer was built with
    tokenizer,           \* the lexeme streams the external tokenizer may produce
    batch_limit,         \* how many documents the batch reader may yield
    consumed,            \* the document ids the batch reader has yielded, in order
    documents_ids,       \* RoaringBitmap
    key_buffer,          \* Vec<u8>
    field_buffer,        \* String
    sorter,              \* the (key, position) pairs inserted, in order
    origin,              \* for each inserted pair: document, field, offset, token text
    pc,                  \* "documents" | "fields" | "tokens" | "done"
    document_id,         \* id of the document being processed
    obkv,                \* the fields of the current document not yet visited
    field_id,            \* id of the field being processed
    tokens,              \* the (offset, token) pairs of the current field not yet consumed
    taken,               \* every (offset, token) pair the token loop was given
    visited,             \* (document, field, what happened) for every field met
    failure,             \* the first failure met ("none" before)
    result,              \* what the call returned ("Running" before it returns)
    fn_in,               \* argument of the pure function under check
    fn_out               \* its result

vars == <<searchable_fields, stop_words, analyzer, tokenizer, batch_limit, consumed,
          documents_ids, key_buffer, field_buffer, sorter, origin, pc, document_id,
          obkv, field_id, tokens, taken, visited, failure, result, fn_in, fn_out>>

extractor_vars == <<searchable_fields, stop_words, analyzer, tokenizer, batch_limit,
                    consumed, documents_ids, key_buffer, field_buffer, sorter, origin,
                    pc, document_id, obkv, field_id, tokens, taken, visited, failure, result>>

(***************************************************************************)
(* Bounds of the model.                                                    *)
(***************************************************************************)
MaxDocs == 2        \* documents per batch
MaxFields == 2      \* fields per document
MaxNodes == 4       \* nodes of a JSON value
MaxStreamLen == 4   \* tokens of a stream given to process_tokens

(***************************************************************************)
(* Sequence helpers.                                                       *)
(***************************************************************************)
Range(s) == {s[i] : i \in 1..Len(s)}

SeqsUpTo(S, n) == UNION {[1..k -> S] : k \in 0..n}

StartsWith(s, p) == Len(p) <= Len(s) /\ SubSeq(s, 1, Len(p)) = p

EndsWith(s, p) == Len(p) <= Len(s) /\ SubSeq(s, Len(s) - Len(p) + 1, Len(s)) = p

IsWhitespace(c) == c \in {" ", "\t", "\n"}

RECURSIVE TrimStart(_)
TrimStart(s) ==
    IF s # <<>> /\ IsWhitespace(Head(s)) THEN TrimStart(Tail(s)) ELSE s

RECURSIVE TrimEnd(_)
TrimEnd(s) ==
    IF s # <<>> /\ IsWhitespace(s[Len(s)]) THEN TrimEnd(SubSeq(s, 1, Len(s) - 1)) ELSE s

\* str::trim
Trim(s) == TrimEnd(TrimStart(s))

(***************************************************************************)
(* serde_json::Value and json_to_string.                                   *)
(***************************************************************************)
Null == [t |-> "Null"]
Bool(b) == [t |-> "Bool", b |-> b]
Number(n) == [t |-> "Number", n |-> n]
String(s) == [t |-> "String", s |-> s]
Array(items) == [t |-> "Array", items |-> items]
Object(entries) == [t |-> "Object", entries |-> entries]

Digit(d) == <<"0", "1", "2", "3", "4", "5", "6", "7", "8", "9">>[d + 1]

RECURSIVE Digits(_)
Digits(n) == IF n < 10 THEN <<Digit(n)>> ELSE Digits(n \div 10) \o <<Digit(n % 10)>>

\* write!(output, "{}", number) for an integer number
FmtNumber(n) == IF n < 0 THEN <<"-">> \o Digits(-n) ELSE Digits(n)

\* write!(output, "{}", boolean)
FmtBool(b) == IF b THEN <<"t", "r", "u", "e">> ELSE <<"f", "a", "l", "s", "e">>

ArrayCountIgnored(count) == TRUE

\* "check that at least one value was written" of the array case
ArrayWritten(count) == count # 0

ObjectCountIgnored(count) == TRUE

\* "check that at least one value was written" of the object case
ObjectWritten(count) == count # 0

RECURSIVE inner(_, _), InnerArray(_, _, _, _), InnerObject(_, _, _, _),
          InnerObjectKeyFirst(_, _, _, _)

\* an Object loop that writes "key: " into the output before the value is visited
InnerObjectKeyFirst(entries, i, output, count) ==
    IF i > Len(entries)
    THEN [ok |-> ObjectWritten(count), out |-> output]
    ELSE LET r == inner(entries[i][2], output \o entries[i][1] \o <<":", " ">>) IN
         IF r.ok
         THEN InnerObjectKeyFirst(entries, i + 1, r.out \o <<".", " ">>, count + 1)
         ELSE InnerObjectKeyFirst(entries, i + 1, r.out, count)

\* the loop of the Array case: elements i.. of items, count written so far
InnerArray(items, i, output, count) ==
    IF i > Len(items)
    THEN [ok |-> ArrayWritten(count), out |-> output]
    ELSE LET r == inner(items[i], output) IN
         IF r.ok
         THEN InnerArray(items, i + 1, r.out \o <<".", " ">>, count + 1)
         ELSE InnerArray(items, i + 1, r.out, count)

\* the loop of the Object case: the entry's text is built in a buffer of its own
InnerObject(entries, i, output, count) ==
    IF i > Len(entries)
    THEN [ok |-> ObjectWritten(count), out |-> output]
    ELSE LET buffer == entries[i][1] \o <<":", " ">>
             r == inner(entries[i][2], buffer)
         IN IF r.ok
            THEN InnerObject(entries, i + 1, output \o r.out \o <<".", " ">>, count + 1)
            ELSE InnerObject(entries, i + 1, output, count)

\* fn inner(value, output) -> bool, with the output it leaves
inner(value, output) ==
    CASE value.t = "Null" -> [ok |-> FALSE, out |-> output]
      [] value.t = "Bool" -> [ok |-> TRUE, out |-> output \o FmtBool(value.b)]
      [] value.t = "Number" -> [ok |-> TRUE, out |-> output \o FmtNumber(value.n)]
      [] value.t = "String" -> [ok |-> TRUE, out |-> output \o value.s]
      [] value.t = "Array" -> InnerArray(value.items, 1, output, 0)
      [] value.t = "Object" -> InnerObject(value.entries, 1, output, 0)

\* fn json_to_string(value, buffer) -> Option<&str>, with the buffer it leaves
json_to_string(value, buffer) ==
    IF value.t = "String"
    THEN [some |-> TRUE, text |-> value.s, buffer |-> buffer]
    ELSE LET r == inner(value, buffer) IN
         IF r.ok
         THEN [some |-> TRUE, text |-> r.out, buffer |-> r.out]
         ELSE [some |-> FALSE, text |-> <<>>, buffer |-> r.out]

(***************************************************************************)
(* The JSON values with at most MaxNodes nodes.                            *)
(***************************************************************************)
JsonKeys == {<<"k">>, <<>>}

JsonLeaves == {Null, Bool(TRUE), Number(-7), String(<<>>), String(<<"a">>)}

\* the sequences of n distinct keys
KeySeqs(n) == {ks \in [1..n -> JsonKeys] : \A i, j \in 1..n : ks[i] = ks[j] => i = j}

RECURSIVE JsonOfSize(_), JsonForests(_)

\* the sequences of values with n nodes altogether
JsonForests(n) ==
    IF n = 0 THEN {<<>>}
    ELSE UNION {{<<v>> \o f : v \in JsonOfSize(k), f \in JsonForests(n - k)} : k \in 1..n}

\* the values with exactly n nodes
JsonOfSize(n) ==
    (IF n = 1 THEN JsonLeaves ELSE {})
    \cup {Array(f) : f \in JsonForests(n - 1)}
    \cup UNION {{Object([i \in 1..Len(f) |-> <<ks[i], f[i]>>]) : ks \in KeySeqs(Len(f))} :
                f \in JsonForests(n - 1)}

\* the values with at most n nodes
JsonUpTo(n) == UNION {JsonOfSize(k) : k \in 1..n}

\* "contains recursively only nulls and empty arrays/objects"
RECURSIVE OnlyNulls(_)
OnlyNulls(value) ==
    CASE value.t = "Null" -> TRUE
      [] value.t = "Array" -> \A i \in 1..Len(value.items) : OnlyNulls(value.items[i])
      [] value.t = "Object" -> \A i \in 1..Len(value.entries) : OnlyNulls(value.entries[i][2])
      [] OTHER -> FALSE

(***************************************************************************)
(* meilisearch_tokenizer tokens and process_tokens.                        *)
(***************************************************************************)
TokenKinds == {"Word", "StopWord", "Unknown", "SeparatorHard", "SeparatorSoft"}

Token(kind, text) == [kind |-> kind, text |-> text]

\* Token::is_separator().is_some()
is_separator(token) == token.kind \in {"SeparatorHard", "SeparatorSoft"}

\* Token::is_word(): the kind is TokenKind::Word
is_word(token) == token.kind = "Word"

IsWordClass(token) == token.kind \in {"Word", "StopWord", "Unknown"}

SkipNothing(ts) == ts

\* .skip_while(|token| token.is_separator().is_some())
skip_while(ts) ==
    IF \A i \in 1..Len(ts) : is_separator(ts[i]) THEN <<>>
    ELSE LET first == CHOOSE i \in 1..Len(ts) :
                         ~is_separator(ts[i]) /\ \A j \in 1..(i - 1) : is_separator(ts[j])
         IN SubSeq(ts, first, Len(ts))

ScanStepSoftOverwrites(st, token) ==
    CASE token.kind \in {"Word", "StopWord", "Unknown"} ->
            [offset |-> st.offset + (CASE st.prev_kind = "SeparatorHard" -> 8
                                       [] st.prev_kind = "None" -> 0
                                       [] OTHER -> 1),
             prev_kind |-> token.kind]
      [] OTHER -> [st EXCEPT !.prev_kind = token.kind]

\* the closure given to .scan((0, None), ..): the state after one token
ScanStep(st, token) ==
    CASE token.kind \in {"Word", "StopWord", "Unknown"} ->
            [offset |-> st.offset + (CASE st.prev_kind = "SeparatorHard" -> 8
                                       [] st.prev_kind = "None" -> 0
                                       [] OTHER -> 1),
             prev_kind |-> token.kind]
      [] token.kind = "SeparatorHard" -> [st EXCEPT !.prev_kind = token.kind]
      [] token.kind = "SeparatorSoft" /\ st.prev_kind # "SeparatorHard" ->
            [st EXCEPT !.prev_kind = token.kind]
      [] OTHER -> st

\* the states of the scan after each token of ts, from state st; the stream is cut in
\* halves to keep the evaluation shallow
RECURSIVE ScanStates(_, _)
ScanStates(st, ts) ==
    IF Len(ts) = 0 THEN <<>>
    ELSE IF Len(ts) = 1 THEN <<ScanStep(st, ts[1])>>
    ELSE LET half == Len(ts) \div 2
             left == ScanStates(st, SubSeq(ts, 1, half))
         IN left \o ScanStates(left[half], SubSeq(ts, half + 1, Len(ts)))

\* .scan((0, None), ..): every token paired with the offset at the moment it is processed
scan(st, ts) ==
    LET states == ScanStates(st, ts) IN
    [i \in 1..Len(ts) |-> [offset |-> states[i].offset, token |-> ts[i]]]

\* .filter(|(_, t)| t.is_word())
filter(ps) == SelectSeq(ps, LAMBDA p : is_word(p.token))

Scanned(ts) == scan([offset |-> 0, prev_kind |-> "None"], skip_while(ts))

process_tokens(ts) == filter(Scanned(ts))

(***************************************************************************)
(* Integer conversions.                                                    *)
(***************************************************************************)
\* `x as u32` of a usize: x modulo 2^32, computed on 16-bit halves
AsU32(x) == ((x \div 65536) % 65536) * 65536 + (x % 65536)

\* u32::try_from(usize).is_ok(): x < 2^32
FitsU32(x) == (x \div 65536) < 65536

\* u32::to_be_bytes
to_be_bytes(n) == <<(n \div 16777216) % 256, (n \div 65536) % 256, (n \div 256) % 256, n % 256>>

\* u32::from_be_bytes
from_be_bytes(b) == b[1] * 16777216 + b[2] * 65536 + b[3] * 256 + b[4]

\* the UTF-8 encoding of the characters token texts are made of
Utf8(c) ==
    CASE c = " " -> 32
      [] c = "." -> 46
      [] c = "a" -> 97
      [] c = "b" -> 98
      [] c = "u" -> 117

\* str::as_bytes
as_bytes(text) == [i \in 1..Len(text) |-> Utf8(text[i])]

\* crate::proximity::ONE_ATTRIBUTE
ONE_ATTRIBUTE == 1000

(***************************************************************************)
(* The inputs of one call of extract_docid_word_positions.                 *)
(***************************************************************************)
None == [some |-> FALSE, set |-> {}]
Some(set) == [some |-> TRUE, set |-> set]

\* FieldId is a u16
FieldIds == {0, 1, 65535}

\* keys of the batch: two 4-byte ids (1 and 258) and a 3-byte key
DocKeys == {to_be_bytes(1), to_be_bytes(258), <<0, 0, 1>>}

InvalidJson == [valid |-> FALSE, value |-> Null]
Json(value) == [valid |-> TRUE, value |-> value]

\* raw field values: bytes that are no JSON, and the bytes of two JSON values
RawValues == {InvalidJson, Json(Null), Json(Array(<<Null, String(<<"a", " ", "b">>)>>))}

\* an obkv document: at most MaxFields (field id, raw value) pairs, by increasing field id
FieldMaps ==
    {fm \in SeqsUpTo(FieldIds \X RawValues, MaxFields) :
        \A i \in 1..(Len(fm) - 1) : fm[i][1] < fm[i + 1][1]}

WordA == Token("Word", <<"a">>)
WordB == Token("Word", <<" ", "a", "b", " ">>)
Blank == Token("Word", <<" ">>)
Unknown == Token("Unknown", <<"u">>)
Hard == Token("SeparatorHard", <<".">>)
Soft == Token("SeparatorSoft", <<" ">>)

\* what the tokenizer may make of a text, before stop-words are classified
ShortStreams ==
    {<<WordA>>, <<Soft, WordA, Hard, WordB>>, <<Unknown, Blank, Soft, WordA>>}

\* a text of 127 one-word sentences: the offsets run 0, 8, .., 1000, 1008
LongStream == [i \in 1..254 |-> IF i % 2 = 1 THEN WordA ELSE Hard]

(***************************************************************************)
(* Lines 28-45: the state before the first document is read.               *)
(***************************************************************************)
AnalyzerConfigDefault == None

\* lines 41-44: the config, with the stop-words when some are passed
Config(sw) == IF sw.some THEN sw ELSE AnalyzerConfigDefault

\* line 45: Analyzer::new(AnalyzerConfig::default()): the config built above is not used
AnalyzerNew(config) == AnalyzerConfigDefault

\* Analyzer::analyze: a word of the analyzer's stop-word set is classified StopWord
analyze(lexemes, an) ==
    [i \in 1..Len(lexemes) |->
        IF lexemes[i].kind = "Word" /\ an.some /\ Trim(lexemes[i].text) \in an.set
        THEN Token("StopWord", lexemes[i].text)
        ELSE lexemes[i]]

Running == [tag |-> "Running"]
Ok(ids, reader) == [tag |-> "Ok", documents_ids |-> ids, reader |-> reader]
Err(error) == [tag |-> "Err", error |-> error]

PureIdle == fn_in = <<>> /\ fn_out = [done |-> FALSE]

Start(sf, sw, streams, limit) ==
    /\ searchable_fields = sf
    /\ stop_words = sw
    /\ analyzer = AnalyzerNew(Config(sw))
    /\ tokenizer = streams
    /\ batch_limit = limit
    /\ consumed = <<>>
    /\ documents_ids = {}
    /\ key_buffer = <<>>
    /\ field_buffer = <<>>
    /\ sorter = <<>>
    /\ origin = <<>>
    /\ taken = <<>>
    /\ pc = "documents"
    /\ document_id = 0
    /\ obkv = <<>>
    /\ field_id = 0
    /\ tokens = <<>>
    /\ visited = <<>>
    /\ failure = "none"
    /\ result = Running

Init ==
    /\ \E sf \in {None, Some({1})}, sw \in {None, Some({<<"a">>})} :
          Start(sf, sw, ShortStreams, MaxDocs)
    /\ PureIdle

(***************************************************************************)
(* The operations of the loop, lines 47-85.                                *)
(***************************************************************************)
Max(set) == CHOOSE m \in set : \A x \in set : x <= m

PushReplaces(bitmap, value) ==
    IF bitmap = {} \/ value > Max(bitmap) THEN {value} ELSE bitmap

\* RoaringBitmap::push: the value is added only when it is greater than the maximum
push(bitmap, value) ==
    IF bitmap = {} \/ value > Max(bitmap) THEN bitmap \cup {value} ELSE bitmap

EveryFieldSearchable(sf, fid) == TRUE

\* line 59: searchable_fields.as_ref().map_or(true, |sf| sf.contains(&field_id))
IsSearchable(sf, fid) == IF sf.some THEN fid \in sf.set ELSE TRUE

SkipInvalidJson(raw) == IF raw.valid THEN "value" ELSE "skip"

\* line 61: serde_json::from_slice(field_bytes).map_err(InternalError::SerdeJson)?
from_slice(raw) == IF raw.valid THEN "value" ELSE "return"

TakeWhileUpTo(ps) ==
    IF \A i \in 1..Len(ps) : AsU32(ps[i].offset) <= ONE_ATTRIBUTE THEN ps
    ELSE LET stop == CHOOSE i \in 1..Len(ps) :
                        /\ ~(AsU32(ps[i].offset) <= ONE_ATTRIBUTE)
                        /\ \A j \in 1..(i - 1) : AsU32(ps[j].offset) <= ONE_ATTRIBUTE
         IN SubSeq(ps, 1, stop - 1)

\* line 66: .take_while(|(p, _)| (*p as u32) < ONE_ATTRIBUTE)
take_while(ps) ==
    IF \A i \in 1..Len(ps) : AsU32(ps[i].offset) < ONE_ATTRIBUTE THEN ps
    ELSE LET stop == CHOOSE i \in 1..Len(ps) :
                        /\ ~(AsU32(ps[i].offset) < ONE_ATTRIBUTE)
                        /\ \A j \in 1..(i - 1) : AsU32(ps[j].offset) < ONE_ATTRIBUTE
         IN SubSeq(ps, 1, stop - 1)

KeepBuffer(buffer) == buffer

\* line 71: key_buffer.truncate(mem::size_of::<u32>())
truncate(buffer) == SubSeq(buffer, 1, 4)

\* line 77: field_id as u32 * ONE_ATTRIBUTE + position, in u32
Position(fid, position) == AsU32(fid * ONE_ATTRIBUTE + position)

\* sorter_into_reader with concat_u32s_array: per key, the positions in insertion order
Merged(entries) ==
    [k \in {e.key : e \in Range(entries)} |->
        LET same == SelectSeq(entries, LAMBDA e : e.key = k) IN
        [i \in 1..Len(same) |-> same[i].value]]

\* an early return with an error: the locals are dropped, nothing else is returned
Return(error) ==
    /\ pc' = "done"
    /\ result' = Err(error)

\* lines 47-56: the reader yields a document with a 4-byte key
NextDocument ==
    /\ pc = "documents"
    /\ Len(consumed) < batch_limit
    /\ \E key \in DocKeys, fields \in FieldMaps :
          /\ key \notin Range(consumed)
          /\ Len(key) = 4
          /\ consumed' = Append(consumed, key)
          /\ document_id' = from_be_bytes(key)
          /\ obkv' = fields
          /\ documents_ids' = push(documents_ids, from_be_bytes(key))
          /\ key_buffer' = to_be_bytes(from_be_bytes(key))
    /\ pc' = "fields"
    /\ UNCHANGED <<searchable_fields, stop_words, analyzer, tokenizer, batch_limit,
                   field_buffer, sorter, origin, field_id, tokens, taken, visited,
                   failure, result, fn_in, fn_out>>

\* lines 48-51: the key of the document the reader yields is not 4 bytes long
BadDocumentKey ==
    /\ pc = "documents"
    /\ Len(consumed) < batch_limit
    /\ \E key \in DocKeys :
          /\ key \notin Range(consumed)
          /\ Len(key) # 4
          /\ consumed' = Append(consumed, key)
    /\ failure' = "DocumentKey"
    /\ Return("InvalidNumberSerialization")
    /\ UNCHANGED <<searchable_fields, stop_words, analyzer, tokenizer, batch_limit,
                   documents_ids, key_buffer, field_buffer, sorter, origin, document_id,
                   obkv, field_id, tokens, taken, visited, fn_in, fn_out>>

\* line 47: obkv_documents.next()? fails
ReaderFails ==
    /\ pc = "documents"
    /\ failure' = "Reader"
    /\ Return("Grenad")
    /\ UNCHANGED <<searchable_fields, stop_words, analyzer, tokenizer, batch_limit,
                   consumed, documents_ids, key_buffer, field_buffer, sorter, origin,
                   document_id, obkv, field_id, tokens, taken, visited, fn_in, fn_out>>

\* line 87: the batch is over and sorter_into_reader succeeds
EndOfBatch ==
    /\ pc = "documents"
    /\ pc' = "done"
    /\ result' = Ok(documents_ids, Merged(sorter))
    /\ UNCHANGED <<searchable_fields, stop_words, analyzer, tokenizer, batch_limit,
                   consumed, documents_ids, key_buffer, field_buffer, sorter, origin,
                   document_id, obkv, field_id, tokens, taken, visited, failure,
                   fn_in, fn_out>>

\* line 87: the batch is over and sorter_into_reader fails
FinishFails ==
    /\ pc = "documents"
    /\ failure' = "SorterFinish"
    /\ Return("Io")
    /\ UNCHANGED <<searchable_fields, stop_words, analyzer, tokenizer, batch_limit,
                   consumed, documents_ids, key_buffer, field_buffer, sorter, origin,
                   document_id, obkv, field_id, tokens, taken, visited, fn_in, fn_out>>

Visit(fid, what, all, kept) ==
    Append(visited, [doc |-> document_id, fid |-> fid, what |-> what,
                     offsets |-> [i \in 1..Len(all) |-> all[i].offset],
                     kept |-> Len(kept)])

\* lines 58-59: a field that is not searchable is passed over
SkipField ==
    /\ pc = "fields"
    /\ obkv # <<>>
    /\ ~IsSearchable(searchable_fields, Head(obkv)[1])
    /\ obkv' = Tail(obkv)
    /\ visited' = Visit(Head(obkv)[1], "not searchable", <<>>, <<>>)
    /\ UNCHANGED <<searchable_fields, stop_words, analyzer, tokenizer, batch_limit,
                   consumed, documents_ids, key_buffer, field_buffer, sorter, origin,
                   pc, document_id, field_id, tokens, taken, failure, result,
                   fn_in, fn_out>>

\* lines 60-61: the value of a searchable field is not JSON
DeserializeFails ==
    /\ pc = "fields"
    /\ obkv # <<>>
    /\ IsSearchable(searchable_fields, Head(obkv)[1])
    /\ ~Head(obkv)[2].valid
    /\ failure' = "Deserialize"
    /\ visited' = Visit(Head(obkv)[1], "invalid", <<>>, <<>>)
    /\ obkv' = Tail(obkv)
    /\ IF from_slice(Head(obkv)[2]) = "return"
       THEN Return("SerdeJson")
       ELSE UNCHANGED <<pc, result>>
    /\ UNCHANGED <<searchable_fields, stop_words, analyzer, tokenizer, batch_limit,
                   consumed, documents_ids, key_buffer, field_buffer, sorter, origin,
                   document_id, field_id, tokens, taken, fn_in, fn_out>>

\* lines 60-63: the value of a searchable field has no text to index
NotIndexable ==
    /\ pc = "fields"
    /\ obkv # <<>>
    /\ IsSearchable(searchable_fields, Head(obkv)[1])
    /\ Head(obkv)[2].valid
    /\ LET field == json_to_string(Head(obkv)[2].value, <<>>) IN
          /\ ~field.some
          /\ field_buffer' = field.buffer
    /\ obkv' = Tail(obkv)
    /\ visited' = Visit(Head(obkv)[1], "not indexable", <<>>, <<>>)
    /\ UNCHANGED <<searchable_fields, stop_words, analyzer, tokenizer, batch_limit,
                   consumed, documents_ids, key_buffer, sorter, origin, pc, document_id,
                   field_id, tokens, taken, failure, result, fn_in, fn_out>>

\* lines 60-66: the text of a searchable field is analyzed and its tokens are positioned
AnalyzeField ==
    /\ pc = "fields"
    /\ obkv # <<>>
    /\ IsSearchable(searchable_fields, Head(obkv)[1])
    /\ Head(obkv)[2].valid
    /\ LET field == json_to_string(Head(obkv)[2].value, <<>>) IN
          /\ field.some
          /\ field_buffer' = field.buffer
    /\ \E lexemes \in tokenizer :
          LET all == process_tokens(analyze(lexemes, analyzer))
              kept == take_while(all)
          IN /\ tokens' = kept
             /\ visited' = Visit(Head(obkv)[1], "analyzed", all, kept)
    /\ field_id' = Head(obkv)[1]
    /\ obkv' = Tail(obkv)
    /\ pc' = "tokens"
    /\ UNCHANGED <<searchable_fields, stop_words, analyzer, tokenizer, batch_limit,
                   consumed, documents_ids, key_buffer, sorter, origin, document_id,
                   taken, failure, result, fn_in, fn_out>>

\* line 58: the fields of the document are over
EndDocument ==
    /\ pc = "fields"
    /\ obkv = <<>>
    /\ pc' = "documents"
    /\ UNCHANGED <<searchable_fields, stop_words, analyzer, tokenizer, batch_limit,
                   consumed, documents_ids, key_buffer, field_buffer, sorter, origin,
                   document_id, obkv, field_id, tokens, taken, visited, failure, result,
                   fn_in, fn_out>>

Take(p) ==
    Append(taken, [doc |-> document_id, fid |-> field_id, offset |-> p.offset,
                   kind |-> p.token.kind, text |-> p.token.text])

\* lines 69-70: a token that is empty once trimmed
SkipEmptyToken ==
    /\ pc = "tokens"
    /\ tokens # <<>>
    /\ Trim(Head(tokens).token.text) = <<>>
    /\ tokens' = Tail(tokens)
    /\ taken' = Take(Head(tokens))
    /\ UNCHANGED <<searchable_fields, stop_words, analyzer, tokenizer, batch_limit,
                   consumed, documents_ids, key_buffer, field_buffer, sorter, origin,
                   pc, document_id, obkv, field_id, visited, failure, result,
                   fn_in, fn_out>>

\* lines 69-79: the key and the position of a token are inserted into the sorter
InsertToken ==
    /\ pc = "tokens"
    /\ tokens # <<>>
    /\ LET p == Head(tokens)
           token == Trim(p.token.text)
           key == truncate(key_buffer) \o as_bytes(token)
       IN /\ token # <<>>
          /\ key_buffer' = key
          /\ tokens' = Tail(tokens)
          /\ taken' = Take(p)
          /\ IF FitsU32(p.offset)
             THEN /\ sorter' = Append(sorter, [key |-> key,
                                               value |-> Position(field_id, p.offset)])
                  /\ origin' = Append(origin, [doc |-> document_id, fid |-> field_id,
                                               offset |-> p.offset, kind |-> p.token.kind,
                                               text |-> p.token.text])
                  /\ UNCHANGED <<pc, result, failure>>
             ELSE /\ failure' = "Offset"
                  /\ Return("InvalidNumberSerialization")
                  /\ UNCHANGED <<sorter, origin>>
    /\ UNCHANGED <<searchable_fields, stop_words, analyzer, tokenizer, batch_limit,
                   consumed, documents_ids, field_buffer, document_id, obkv, field_id,
                   visited, fn_in, fn_out>>

\* lines 78-79: docid_word_positions_sorter.insert(..)? fails
InsertFails ==
    /\ pc = "tokens"
    /\ tokens # <<>>
    /\ LET p == Head(tokens)
           token == Trim(p.token.text)
       IN /\ token # <<>>
          /\ FitsU32(p.offset)
          /\ key_buffer' = truncate(key_buffer) \o as_bytes(token)
          /\ tokens' = Tail(tokens)
          /\ taken' = Take(p)
    /\ failure' = "SorterInsert"
    /\ Return("Io")
    /\ UNCHANGED <<searchable_fields, stop_words, analyzer, tokenizer, batch_limit,
                   consumed, documents_ids, field_buffer, sorter, origin, document_id,
                   obkv, field_id, visited, fn_in, fn_out>>

\* line 68: the tokens of the field are over
EndTokens ==
    /\ pc = "tokens"
    /\ tokens = <<>>
    /\ pc' = "fields"
    /\ UNCHANGED <<searchable_fields, stop_words, analyzer, tokenizer, batch_limit,
                   consumed, documents_ids, key_buffer, field_buffer, sorter, origin,
                   document_id, obkv, field_id, tokens, taken, visited, failure, result,
                   fn_in, fn_out>>

Next ==
    \/ NextDocument
    \/ BadDocumentKey
    \/ ReaderFails
    \/ EndOfBatch
    \/ FinishFails
    \/ SkipField
    \/ DeserializeFails
    \/ NotIndexable
    \/ AnalyzeField
    \/ EndDocument
    \/ SkipEmptyToken
    \/ InsertToken
    \/ InsertFails
    \/ EndTokens

Spec == Init /\ [][Next]_vars

(***************************************************************************)
(* asc_desc.rs: the sort-expression parser.                                *)
(***************************************************************************)
NoSplit == [found |-> FALSE, left |-> <<>>, right |-> <<>>]

SplitAt(text, i) ==
    [found |-> TRUE, left |-> SubSeq(text, 1, i - 1), right |-> SubSeq(text, i + 1, Len(text))]

\* str::split_once: at the first occurrence of c
split_once(text, c) ==
    IF \E i \in 1..Len(text) : text[i] = c
    THEN SplitAt(text, CHOOSE i \in 1..Len(text) :
                          text[i] = c /\ \A j \in 1..(i - 1) : text[j] # c)
    ELSE NoSplit

\* str::rsplit_once: at the last occurrence of c
rsplit_once(text, c) ==
    IF \E i \in 1..Len(text) : text[i] = c
    THEN SplitAt(text, CHOOSE i \in 1..Len(text) :
                          text[i] = c /\ \A j \in (i + 1)..Len(text) : text[j] # c)
    ELSE NoSplit

\* str::strip_prefix
strip_prefix(text, prefix) ==
    IF StartsWith(text, prefix)
    THEN [some |-> TRUE, text |-> SubSeq(text, Len(prefix) + 1, Len(text))]
    ELSE [some |-> FALSE, text |-> <<>>]

\* str::strip_suffix
strip_suffix(text, suffix) ==
    IF EndsWith(text, suffix)
    THEN [some |-> TRUE, text |-> SubSeq(text, 1, Len(text) - Len(suffix))]
    ELSE [some |-> FALSE, text |-> <<>>]

DigitChars == {"0", "1", "2", "3", "4", "5", "6", "7", "8", "9"}

DigitValue(c) == CHOOSE d \in 0..9 : Digit(d) = c

RECURSIVE DigitsValue(_)
DigitsValue(ds) ==
    IF ds = <<>> THEN 0
    ELSE DigitsValue(SubSeq(ds, 1, Len(ds) - 1)) * 10 + DigitValue(ds[Len(ds)])

RECURSIVE StripZeros(_)
StripZeros(ds) ==
    IF ds # <<>> /\ ds[Len(ds)] = "0" THEN StripZeros(SubSeq(ds, 1, Len(ds) - 1)) ELSE ds

\* <f64 as FromStr>::from_str on decimal notation: [+-] digits [. digits], with a digit
\* on one side of the point at least. The value is kept exactly: sign, integer part,
\* fraction digits without trailing zeros.
ParseF64(text) ==
    LET signed == text # <<>> /\ text[1] \in {"+", "-"}
        body == IF signed THEN Tail(text) ELSE text
        dot == split_once(body, ".")
        int == IF dot.found THEN dot.left ELSE body
        frac == IF dot.found THEN dot.right ELSE <<>>
        ok == /\ Range(int) \subseteq DigitChars
              /\ Range(frac) \subseteq DigitChars
              /\ Len(int) + Len(frac) > 0
    IN IF ok
       THEN [ok |-> TRUE,
             value |-> [neg |-> signed /\ text[1] = "-", int |-> DigitsValue(int),
                        frac |-> StripZeros(frac)]]
       ELSE [ok |-> FALSE, value |-> [neg |-> FALSE, int |-> 0, frac |-> <<>>]]

\* (-bound.0 ..= bound.0).contains(&x)
Within(x, bound) == x.int < bound \/ (x.int = bound /\ x.frac = <<>>)

GeoPointPrefix == <<"_", "g", "e", "o", "P", "o", "i", "n", "t", "(">>
GeoRadiusPrefix == <<"_", "g", "e", "o", "R", "a", "d", "i", "u", "s", "(">>

\* crate::error::is_reserved_keyword
is_reserved_keyword(text) ==
    text \in {<<"_", "g", "e", "o">>,
              <<"_", "g", "e", "o", "D", "i", "s", "t", "a", "n", "c", "e">>,
              <<"_", "g", "e", "o", "P", "o", "i", "n", "t">>,
              <<"_", "g", "e", "o", "R", "a", "d", "i", "u", "s">>}

Field(name) == [tag |-> "Field", name |-> name]
Geo(lat, lng) == [tag |-> "Geo", lat |-> lat, lng |-> lng]
Asc(member) == [tag |-> "Asc", member |-> member]
Desc(member) == [tag |-> "Desc", member |-> member]
InvalidLatitude == [tag |-> "InvalidLatitude"]
InvalidLongitude == [tag |-> "InvalidLongitude"]
InvalidSyntax(name) == [tag |-> "InvalidSyntax", name |-> name]
ReservedKeyword(name) == [tag |-> "ReservedKeyword", name |-> name]
IsError(r) ==
    r.tag \in {"InvalidLatitude", "InvalidLongitude", "InvalidSyntax", "ReservedKeyword"}

\* impl FromStr for Member
MemberFromStr(text) ==
    LET stripped == strip_prefix(text, GeoPointPrefix)
        point == IF stripped.some THEN strip_suffix(stripped.text, <<")">>) ELSE stripped
    IN IF point.some
       THEN LET halves == split_once(point.text, ",")
                lat == ParseF64(Trim(halves.left))
                lng == ParseF64(Trim(halves.right))
            IN IF ~halves.found \/ ~lat.ok \/ ~lng.ok THEN ReservedKeyword(text)
               ELSE IF ~Within(lat.value, 90) THEN InvalidLatitude
               ELSE IF ~Within(lng.value, 180) THEN InvalidLongitude
               ELSE Geo(lat.value, lng.value)
       ELSE IF is_reserved_keyword(text) \/ StartsWith(text, GeoRadiusPrefix)
            THEN ReservedKeyword(text)
            ELSE Field(text)

AscText == <<"a", "s", "c">>
DescText == <<"d", "e", "s", "c">>

SplitDirectionFirst(text) == split_once(text, ":")

\* line 148: text.rsplit_once(':')
SplitDirection(text) == rsplit_once(text, ":")

\* impl FromStr for AscDesc
AscDescFromStr(text) ==
    LET parts == SplitDirection(text)
        member == MemberFromStr(parts.left)
    IN IF parts.found /\ parts.right = AscText
       THEN IF IsError(member) THEN member ELSE Asc(member)
       ELSE IF parts.found /\ parts.right = DescText
       THEN IF IsError(member) THEN member ELSE Desc(member)
       ELSE InvalidSyntax(text)

\* the members the parser is tried on
Lefts ==
    {
     <<"t", "r", "u", "c">>, <<"a", ":", "b">>, <<>>, <<"4", "2">>, <<"_", "g", "e", "o">>,
     <<"_", "g", "e", "o", "P", "o", "i", "n", "t">>,
     <<"_", "g", "e", "o", "D", "i", "s", "t", "a", "n", "c", "e">>,
     <<"_", "g", "e", "o", "R", "a", "d", "i", "u", "s">>,
     <<"_", "g", "e", "o", "R", "a", "d", "i", "u", "s", "(", "1", ",", "2", ")">>,
     <<"_", "g", "e", "o", "P", "o", "i", "n", "t", "(", "1", ",", "2">>,
     <<"_", "g", "e", "o", "P", "o", "i", "n", "t", "(", ")">>,
     <<"_", "g", "e", "o", "P", "o", "i", "n", "t", "(", "1", "8", ")">>,
     <<"_", "g", "e", "o", "P", "o", "i", "n", "t", "(", "3", "5", ",", " ", "8", "5", ",", " ", "7", "5", ")">>,
     <<"_", "g", "e", "o", "P", "o", "i", "n", "t", "(", "4", "2", ",", "1", "2", " ", ",", " ", "5", "9", ",", "5", "9", "8", ")">>,
     <<"_", "g", "e", "o", "P", "o", "i", "n", "t", "(", "x", ",", " ", "1", ")">>,
     <<"_", "g", "e", "o", "P", "o", "i", "n", "t", "(", "4", "2", ",", " ", "5", "9", ")">>,
     <<"_", "g", "e", "o", "P", "o", "i", "n", "t", "(", "4", "2", ".", "4", "5", "9", ",", " ", "5", "9", ")">>,
     <<"_", "g", "e", "o", "P", "o", "i", "n", "t", "(", "9", "0", ".", "0", "0", "0", "0", "0", "0", "0", "0", "0", ",", " ", "1", "8", "0", ")">>,
     <<"_", "g", "e", "o", "P", "o", "i", "n", "t", "(", "-", "9", "0", ",", " ", "-", "1", "8", "0", ".", "0", "0", "0", "0", "0", "0", "0", "0", "0", "0", ")">>,
     <<"_", "g", "e", "o", "P", "o", "i", "n", "t", "(", "4", "2", ".", ",", " ", "5", "9", ".", ")">>,
     <<"_", "g", "e", "o", "P", "o", "i", "n", "t", "(", "2", "0", "0", ",", " ", "2", "0", "0", ")">>,
     <<"_", "g", "e", "o", "P", "o", "i", "n", "t", "(", "9", "0", ".", "0", "0", "0", "0", "0", "1", ",", " ", "0", ")">>,
     <<"_", "g", "e", "o", "P", "o", "i", "n", "t", "(", "0", ",", " ", "-", "1", "8", "0", ".", "0", "0", "0", "0", "0", "1", ")">>,
     <<"_", "g", "e", "o", "P", "o", "i", "n", "t", "(", "1", "5", "9", ".", "2", "5", "6", ",", " ", "1", "3", "0", ")">>,
     <<"_", "g", "e", "o", "P", "o", "i", "n", "t", "(", "1", "2", ",", " ", "-", "2", "0", "2", "1", ")">>,
     <<"t", "r", "u", "c", "(", "1", "2", ",", " ", "1", "3", ")">>,
     <<"_", "g", "e", "o", "P", "o", "i", "n", "t", "(", "4", "2", ".", "1", "2", " ", ",", " ", "5", "9", ".", "5", "9", "8", ")">>,
     <<"_", "g", "e", "o", "P", "o", "i", "n", "t", "(", "-", "9", "1", ",", " ", "0", ")">>,
     <<"_", "g", "e", "o", "P", "o", "i", "n", "t", "(", "+", "7", ",", " ", ".", "5", ")">>,
     <<"_", "g", "e", "o", "P", "o", "i", "n", "t", "(", ".", ",", " ", "1", ")">>
    }

\* what follows the member
Directions ==
    {
     <<>>, <<":", "a", "s", "c">>, <<":", "d", "e", "s", "c">>,
     <<":", "d", "e", "e", "s", "c">>, <<":", "m", "a", "c", "h", "i", "n">>,
     <<":", "a", "s", "c", ":", "a", "a", "s", "c">>,
     <<":", "d", "e", "s", "c", ":", "a", "s", "c">>, <<":", "A", "S", "C">>,
     <<":", " ", "a", "s", "c">>, <<":">>, <<"a", "s", "c">>
    }

SortExpressions == {l \o d : l \in Lefts, d \in Directions}

(***************************************************************************)
(* The pure functions, each applied to every input of a bounded set.       *)
(***************************************************************************)
Idle == Start(None, None, {}, 0)

NotApplied == [done |-> FALSE]

\* the token streams given to process_tokens
KindToken(kind) ==
    Token(kind, CASE kind = "SeparatorHard" -> <<".">>
                  [] kind = "SeparatorSoft" -> <<" ">>
                  [] kind = "Unknown" -> <<"u">>
                  [] OTHER -> <<"a">>)

TokenStreams ==
    {[i \in 1..Len(ks) |-> KindToken(ks[i])] : ks \in SeqsUpTo(TokenKinds, MaxStreamLen)}

InitTokens == Idle /\ fn_in \in TokenStreams /\ fn_out = NotApplied

ProcessTokens ==
    /\ ~fn_out.done
    /\ fn_out' = [done |-> TRUE, scanned |-> Scanned(fn_in), yielded |-> process_tokens(fn_in)]
    /\ UNCHANGED <<extractor_vars, fn_in>>

SpecTokens == InitTokens /\ [][ProcessTokens]_vars

InitJson == Idle /\ fn_in \in JsonUpTo(MaxNodes) /\ fn_out = NotApplied

JsonToString ==
    /\ ~fn_out.done
    /\ fn_out' = [done |-> TRUE, field |-> json_to_string(fn_in, <<>>)]
    /\ UNCHANGED <<extractor_vars, fn_in>>

SpecJson == InitJson /\ [][JsonToString]_vars

InitAscDesc == Idle /\ fn_in \in SortExpressions /\ fn_out = NotApplied

ParseAscDesc ==
    /\ ~fn_out.done
    /\ fn_out' = [done |-> TRUE, parsed |-> AscDescFromStr(fn_in)]
    /\ UNCHANGED <<extractor_vars, fn_in>>

SpecAscDesc == InitAscDesc /\ [][ParseAscDesc]_vars

\* one document whose fields may be longer than a field's span of positions
InitSpan ==
    /\ \E sf \in {None, Some({1})} :
          Start(sf, None, {LongStream, <<Blank, WordA, Soft, WordB>>}, 1)
    /\ PureIdle

SpecSpan == InitSpan /\ [][Next]_vars

(***************************************************************************)
(* Properties.                                                             *)
(***************************************************************************)
IdsOf(keys) == {from_be_bytes(keys[i]) : i \in 1..Len(keys)}

Ascending(keys) ==
    \A i, j \in 1..Len(keys) : i < j => from_be_bytes(keys[i]) < from_be_bytes(keys[j])

\* C1, as stated: after a successful call the returned document-id set is the set of
\* the ids of the batch, in whatever order the reader yielded them.
C1_DocumentSetAnyOrder ==
    result.tag = "Ok" => result.documents_ids = IdsOf(consumed)

\* C1, amended: after a successful call over a batch the reader yielded by increasing
\* document id, the returned document-id set is the set of the ids of the batch,
\* documents without postings included.
C1_DocumentSetAscending ==
    (result.tag = "Ok" /\ Ascending(consumed)) => result.documents_ids = IdsOf(consumed)

C1_Witness ==
    /\ result.tag = "Ok"
    /\ consumed = <<to_be_bytes(1), to_be_bytes(258)>>
    /\ result.documents_ids = {1, 258}
    /\ \A i \in 1..Len(origin) : origin[i].doc # 1
    /\ \E i \in 1..Len(origin) : origin[i].doc = 258

\* C2: when a stop-word set is passed, every field text is analyzed by an analyzer
\* configured with that set, so no term of the set is classified as a plain word; when
\* none is passed the default configuration is used.
C2_StopWordsConfigured ==
    /\ (\E i \in 1..Len(visited) : visited[i].what = "analyzed")
          => analyzer = (IF stop_words.some THEN stop_words ELSE AnalyzerConfigDefault)
    /\ \A i \in 1..Len(taken) :
          (stop_words.some /\ Trim(taken[i].text) \in stop_words.set)
             => taken[i].kind = "StopWord"

\* the offsets of a field that the token loop is given: those before the first one
\* that reaches ONE_ATTRIBUTE
KeptIsSpanPrefix(v) ==
    /\ v.kept <= Len(v.offsets)
    /\ \A j \in 1..v.kept : v.offsets[j] < ONE_ATTRIBUTE
    /\ v.kept < Len(v.offsets) => v.offsets[v.kept + 1] >= ONE_ATTRIBUTE

\* C3: every inserted position p of a field f has p / ONE_ATTRIBUTE = f and
\* p % ONE_ATTRIBUTE = the token's offset, without u32 overflow; from the first token
\* of a field whose offset reaches ONE_ATTRIBUTE on, no token of the field is given to
\* the loop or inserted, and this truncation is no error.
C3_PositionsStayInField ==
    /\ Len(origin) = Len(sorter)
    /\ \A i \in 1..Len(sorter) :
          /\ sorter[i].value \div ONE_ATTRIBUTE = origin[i].fid
          /\ sorter[i].value % ONE_ATTRIBUTE = origin[i].offset
          /\ FitsU32(origin[i].fid * ONE_ATTRIBUTE + origin[i].offset)
          /\ sorter[i].value = origin[i].fid * ONE_ATTRIBUTE + origin[i].offset
    /\ \A i \in 1..Len(taken) : taken[i].offset < ONE_ATTRIBUTE
    /\ \A i \in 1..Len(visited) :
          /\ KeptIsSpanPrefix(visited[i])
          /\ Cardinality({j \in 1..Len(taken) : /\ taken[j].doc = visited[i].doc
                                                /\ taken[j].fid = visited[i].fid})
                <= visited[i].kept
    /\ failure # "Offset"

C3_Witness ==
    /\ result.tag = "Ok"
    /\ Len(visited) = 2
    /\ visited[1].kept < Len(visited[1].offsets)
    /\ visited[2].kept < Len(visited[2].offsets)
    /\ visited[2].fid = 65535
    /\ \E i \in 1..Len(sorter) : sorter[i].value = 65535 * ONE_ATTRIBUTE + 992

\* the first token of the stream that is no separator (past the end when there is none)
FirstWord(ts) ==
    IF \E i \in 1..Len(ts) : IsWordClass(ts[i])
    THEN CHOOSE i \in 1..Len(ts) : IsWordClass(ts[i]) /\ \A j \in 1..(i - 1) : ~IsWordClass(ts[j])
    ELSE Len(ts) + 1

\* C4: of two consecutive word-class tokens after the leading separators, the second
\* is assigned the offset of the first plus 8 when a hard separator lies between them
\* and plus 1 otherwise; the offsets never decrease along the stream.
C4_OffsetsBetweenWords ==
    fn_out.done =>
        LET n == Len(fn_in)
            first == FirstWord(fn_in)
            off(i) == fn_out.scanned[i - first + 1].offset
        IN /\ Len(fn_out.scanned) = n - first + 1
           /\ \A i, j \in first..n :
                 (/\ i < j
                  /\ IsWordClass(fn_in[i])
                  /\ IsWordClass(fn_in[j])
                  /\ \A k \in (i + 1)..(j - 1) : ~IsWordClass(fn_in[k]))
                 => off(j) = off(i) + (IF \E k \in (i + 1)..(j - 1) :
                                             fn_in[k].kind = "SeparatorHard"
                                       THEN 8 ELSE 1)
           /\ \A i, j \in first..n : i <= j => off(i) <= off(j)

C4_Witness ==
    /\ fn_out.done
    /\ [i \in 1..Len(fn_in) |-> fn_in[i].kind]
          = <<"Word", "SeparatorHard", "SeparatorSoft", "StopWord">>
    /\ fn_out.scanned[1].offset = 0
    /\ fn_out.scanned[4].offset = 8

\* C5, as stated: json_to_string returns a non-empty string or None, and None for
\* null and for arrays and objects that hold only nulls and empty arrays and objects.
C5_NonEmptyOrNone ==
    fn_out.done =>
        /\ fn_out.field.some => fn_out.field.text # <<>>
        /\ OnlyNulls(fn_in) => ~fn_out.field.some

\* C5, amended: json_to_string returns None or a string that is non-empty unless the
\* value is the empty string itself, which is returned as it is; it returns None for
\* null and for arrays and objects that hold only nulls and empty arrays and objects.
C5_NonEmptyUnlessEmptyString ==
    fn_out.done =>
        /\ fn_out.field.some => (fn_out.field.text # <<>> \/ fn_in = String(<<>>))
        /\ fn_in = String(<<>>) => (fn_out.field.some /\ fn_out.field.text = <<>>)
        /\ OnlyNulls(fn_in) => ~fn_out.field.some

C5_Witness ==
    /\ fn_out.done
    /\ fn_in = Array(<<Array(<<Null>>), Object(<<>>)>>)
    /\ ~fn_out.field.some

\* C6: the key of every inserted pair is the 4 big-endian bytes of the id of the
\* document being processed followed by the bytes of the trimmed text of the token,
\* which is not empty; the pairs inserted are those of the tokens given to the loop
\* that are not empty once trimmed, in order.
C6_KeyIsDocumentThenTerm ==
    /\ Len(origin) = Len(sorter)
    /\ \A i \in 1..Len(sorter) :
          /\ Trim(origin[i].text) # <<>>
          /\ sorter[i].key = to_be_bytes(origin[i].doc) \o as_bytes(Trim(origin[i].text))
    /\ pc \in {"fields", "tokens"} =>
          /\ document_id = from_be_bytes(consumed[Len(consumed)])
          /\ SubSeq(key_buffer, 1, 4) = to_be_bytes(document_id)
    /\ LET termed == SelectSeq(taken, LAMBDA t : Trim(t.text) # <<>>) IN
          origin = IF failure = "SorterInsert"
                   THEN SubSeq(termed, 1, Len(termed) - 1)
                   ELSE termed

C6_Witness ==
    /\ \E i \in 1..Len(taken) : Trim(taken[i].text) = <<>>
    /\ \E i \in 1..(Len(sorter) - 1) :
          /\ sorter[i].key = <<0, 0, 0, 1, 97, 98>>
          /\ sorter[i + 1].key = <<0, 0, 1, 2, 97>>

ErrorOf(cause) ==
    CASE cause = "DocumentKey" -> "InvalidNumberSerialization"
      [] cause = "Offset" -> "InvalidNumberSerialization"
      [] cause = "Deserialize" -> "SerdeJson"
      [] cause = "Reader" -> "Grenad"
      [] OTHER -> "Io"

\* C7: once a document key is not 4 bytes long, a searchable field's value is no JSON
\* or a sorter insert fails, the call has returned that error and nothing else, whatever
\* was processed before; a returned call does nothing more.
C7_FailureAbortsCall ==
    /\ failure # "none" => (pc = "done" /\ result = Err(ErrorOf(failure)))
    /\ result.tag = "Ok" => failure = "none"
    /\ pc = "done" => (result.tag \in {"Ok", "Err"} /\ ~ENABLED Next)

C7_Witness ==
    /\ failure = "Deserialize"
    /\ result = Err("SerdeJson")
    /\ Len(consumed) = 2
    /\ sorter # <<>>
    /\ documents_ids # {}

IsSearchableField(fid) == ~searchable_fields.some \/ fid \in searchable_fields.set

\* C8: with a searchable field set, every inserted pair comes from a field of the set
\* and the fields outside it are passed over; without one, no field is passed over.
C8_OnlySearchableFields ==
    /\ \A i \in 1..Len(origin) : IsSearchableField(origin[i].fid)
    /\ \A i \in 1..Len(taken) : IsSearchableField(taken[i].fid)
    /\ \A i \in 1..Len(visited) :
          (visited[i].what = "not searchable") <=> ~IsSearchableField(visited[i].fid)

C8_Witness ==
    /\ searchable_fields.some
    /\ \E i \in 1..Len(visited) : visited[i].what = "not searchable" /\ visited[i].fid = 0
    /\ \E i \in 1..Len(origin) : origin[i].fid = 1

\* the text has a ':' and what follows the last one is d
EndsWithDirection(text, d) ==
    /\ Len(text) > Len(d)
    /\ text[Len(text) - Len(d)] = ":"
    /\ SubSeq(text, Len(text) - Len(d) + 1, Len(text)) = d

\* the text of a member of the shape _geoPoint(..)
GeoPointShaped(left) ==
    /\ Len(left) >= Len(GeoPointPrefix) + 1
    /\ SubSeq(left, 1, Len(GeoPointPrefix)) = GeoPointPrefix
    /\ left[Len(left)] = ")"

\* the two numbers of a well-formed point: what is around its first comma, trimmed
PointOf(left) ==
    LET inside == SubSeq(left, Len(GeoPointPrefix) + 1, Len(left) - 1)
        comma == CHOOSE i \in 1..Len(inside) :
                    inside[i] = "," /\ \A j \in 1..(i - 1) : inside[j] # ","
    IN [lat |-> ParseF64(Trim(SubSeq(inside, 1, comma - 1))),
        lng |-> ParseF64(Trim(SubSeq(inside, comma + 1, Len(inside))))]

WellFormedPoint(left) ==
    /\ GeoPointShaped(left)
    /\ "," \in Range(SubSeq(left, Len(GeoPointPrefix) + 1, Len(left) - 1))
    /\ PointOf(left).lat.ok
    /\ PointOf(left).lng.ok

ReservedName(left) == is_reserved_keyword(left) \/ StartsWith(left, GeoRadiusPrefix)

\* C9: a text without ':' or whose part after the last ':' is neither "asc" nor "desc"
\* is InvalidSyntax carrying the whole text, whatever its left part; otherwise the part
\* before the last ':' is the member: a name that is not reserved gives Asc/Desc of
\* Field(name), a reserved name or a _geoPoint(..) that is not well-formed gives
\* ReservedKeyword carrying the left part, and a well-formed point has its latitude
\* checked against [-90, 90] before its longitude against [-180, 180].
C9_DirectionBeforeMember ==
    fn_out.done =>
        LET r == fn_out.parsed
            asc == EndsWithDirection(fn_in, AscText)
            desc == EndsWithDirection(fn_in, DescText)
            left == SubSeq(fn_in, 1, Len(fn_in) - (IF asc THEN 4 ELSE 5))
            Dir(member) == IF asc THEN Asc(member) ELSE Desc(member)
        IN IF ~asc /\ ~desc THEN r = InvalidSyntax(fn_in)
           ELSE IF WellFormedPoint(left)
           THEN LET lat == PointOf(left).lat.value
                    lng == PointOf(left).lng.value
                    lat_ok == lat.int < 90 \/ (lat.int = 90 /\ lat.frac = <<>>)
                    lng_ok == lng.int < 180 \/ (lng.int = 180 /\ lng.frac = <<>>)
                IN r = (IF ~lat_ok THEN InvalidLatitude
                        ELSE IF ~lng_ok THEN InvalidLongitude
                        ELSE Dir(Geo(lat, lng)))
           ELSE IF GeoPointShaped(left) \/ ReservedName(left) THEN r = ReservedKeyword(left)
           ELSE r = Dir(Field(left))

C9_Witness ==
    /\ fn_out.done
    /\ fn_in = GeoPointPrefix \o <<"2", "0", "0", ",", " ", "2", "0", "0", ")">>
                  \o <<":", "d", "e", "e", "s", "c">>
    /\ fn_out.parsed = InvalidSyntax(fn_in)

\* C10, as stated: the leading separators are discarded, the first pair yielded has
\* offset 0 whatever the kinds of the first tokens, and no separator is yielded.
C10_FirstYieldedIsZero ==
    fn_out.done =>
        /\ [i \in 1..Len(fn_out.scanned) |-> fn_out.scanned[i].token]
              = SubSeq(fn_in, FirstWord(fn_in), Len(fn_in))
        /\ fn_out.yielded # <<>> => fn_out.yielded[1].offset = 0
        /\ \A i \in 1..Len(fn_out.yielded) :
              fn_out.yielded[i].token.kind \notin {"SeparatorHard", "SeparatorSoft"}

\* C10, amended: the leading separators are discarded and the first token after them
\* is assigned offset 0; the pairs yielded are those of the tokens of kind Word, so no
\* separator, stop-word or unknown token is yielded, and the first pair yielded has
\* offset 0 exactly when the first token after the leading separators is a Word.
C10_FirstTokenIsZero ==
    fn_out.done =>
        /\ [i \in 1..Len(fn_out.scanned) |-> fn_out.scanned[i].token]
              = SubSeq(fn_in, FirstWord(fn_in), Len(fn_in))
        /\ fn_out.scanned # <<>> => fn_out.scanned[1].offset = 0
        /\ fn_out.yielded = SelectSeq(fn_out.scanned, LAMBDA p : p.token.kind = "Word")
        /\ fn_out.yielded # <<>> =>
              (fn_out.yielded[1].offset = 0 <=> fn_in[FirstWord(fn_in)].kind = "Word")

C10_Witness ==
    /\ fn_out.done
    /\ [i \in 1..Len(fn_in) |-> fn_in[i].kind] = <<"SeparatorSoft", "StopWord", "Word">>
    /\ Len(fn_out.yielded) = 1
    /\ fn_out.yielded[1].offset = 1

\* whether a value yields text: a bool, a number or a string does, an array or an
\* object does when one of its elements or entry values does
RECURSIVE Indexable(_)
Indexable(value) ==
    CASE value.t = "Null" -> FALSE
      [] value.t \in {"Bool", "Number", "String"} -> TRUE
      [] value.t = "Array" -> \E i \in 1..Len(value.items) : Indexable(value.items[i])
      [] value.t = "Object" -> \E i \in 1..Len(value.entries) : Indexable(value.entries[i][2])

\* the concatenation of the sequences of a sequence, in order
RECURSIVE Concat(_)
Concat(parts) == IF parts = <<>> THEN <<>> ELSE Head(parts) \o Concat(Tail(parts))

\* the text of an indexable value: "<element>. " for its indexable elements,
\* "<key>: <value>. " for its entries of indexable value, and nothing for the others
RECURSIVE TextOf(_)
TextOf(value) ==
    CASE value.t = "Bool" -> FmtBool(value.b)
      [] value.t = "Number" -> FmtNumber(value.n)
      [] value.t = "String" -> value.s
      [] value.t = "Array" ->
            Concat([i \in 1..Len(value.items) |->
                      IF Indexable(value.items[i])
                      THEN TextOf(value.items[i]) \o <<".", " ">>
                      ELSE <<>>])
      [] value.t = "Object" ->
            Concat([i \in 1..Len(value.entries) |->
                      IF Indexable(value.entries[i][2])
                      THEN value.entries[i][1] \o <<":", " ">>
                              \o TextOf(value.entries[i][2]) \o <<".", " ">>
                      ELSE <<>>])

\* C11: in json_to_string a nested value that is not indexable leaves the output as
\* it was before it was visited (no key, no ". ", no partial text of it), at any
\* depth: the result is None with an untouched buffer for a value that is not
\* indexable, and otherwise the concatenation, in order, of "<element>. " for the
\* indexable elements of an array and of "<key>: <value>. " for the entries of an
\* object whose value is indexable.
C11_SkippedValuesLeaveNoTrace ==
    fn_out.done =>
        IF Indexable(fn_in)
        THEN fn_out.field.some /\ fn_out.field.text = TextOf(fn_in)
        ELSE ~fn_out.field.some /\ fn_out.field.buffer = <<>>

\* an object entry of indexable value, then entries whose values are not indexable
\* (an object of a null, nested), inside an array that also skips a null
C11_Witness ==
    /\ fn_out.done
    /\ \/ /\ fn_in = Array(<<Bool(TRUE), Object(<<<<<<"k">>, Null>>>>)>>)
          /\ fn_out.field.text = <<"t", "r", "u", "e", ".", " ">>
       \/ /\ fn_in = Object(<<<<<<>>, Bool(TRUE)>>, <<<<"k">>, Array(<<Null>>)>>>>)
          /\ fn_out.field.text = <<":", " ", "t", "r", "u", "e", ".", " ">>

====
